---- MODULE Spec2Model ----
(***************************************************************************)
(* A model of hingesdk/client.py: HingeClient.__init__, HingeClient._request *)
(* and the classmethod HingeClient.login_with_sms.                          *)
(*                                                                         *)
(* Python values are encoded as follows.  An Optional[str] is a string,    *)
(* with None for Python's None.  A request body (the json= / data=         *)
(* keyword) and a response body are tagged records, so that a mapping, a   *)
(* text and None can be told apart.  A header mapping is a function from   *)
(* header names to strings.                                                *)
(***************************************************************************)
EXTENDS Integers, Sequences, FiniteSets, TLC

VARIABLES
    client,         \* the client object the caller holds (NoClient before any)
    lastResult,     \* the last direct _request call on `client` and how it
                    \* ended (NoResult when `client` has served none)
    loggerLevel,    \* level of the module logger logging.getLogger(__name__)
    emitted,        \* the log records the last operation emitted
    pc,             \* position of the login_with_sms run
    args,           \* arguments of the login_with_sms run
    temp_client,    \* login_with_sms: the temporary client
    inFlight,       \* login_with_sms: the request handed to the HTTP session
    flowCall,       \* login_with_sms: how its last _request call ended
    sms_code,       \* login_with_sms: the code input() returned
    flowResult,     \* what the login_with_sms run returned or raised
    runs,           \* number of login_with_sms runs started
    initiateCount,  \* requests sent to the initiate endpoint in this run
    verifyCount,    \* requests sent to the verify endpoint in this run
    codeCount,      \* codes read by input() in this run
    initiateBody,   \* the body of this run's initiate request
    uuidCount,      \* number of identifiers uuid.uuid4() has handed out
    tools,          \* the download_recommendation_content run: its position,
                    \* the API calls made, the photos fetched and saved
    fallbacks       \* the fallback session ids generated, one per run that did

vars == <<client, lastResult, loggerLevel, emitted, pc, args, temp_client,
          inFlight, flowCall, sms_code, flowResult, runs, initiateCount, verifyCount,
          codeCount, initiateBody, uuidCount, fallbacks, tools>>

-----------------------------------------------------------------------------
(* Bounds of the model.                                                    *)

MaxRuns == 2

\* The longest photo list of a profile.
MaxPhotos == 2

-----------------------------------------------------------------------------
(* Python values.                                                          *)

None == "<None>"
Absent == "<absent>"

NoBody == [t |-> "None"]
JsonObj(f) == [t |-> "dict", v |-> f]
Data(s) == [t |-> "str", v |-> s]

\* Python truthiness of a body value: None, {} and "" are falsy.
Truthy(b) ==
    CASE b.t = "None" -> FALSE
      [] b.t = "dict" -> DOMAIN b.v # {}
      [] b.t = "str" -> b.v # ""

\* Python's `a or b`.
PyOr(a, b) == IF Truthy(a) THEN a ELSE b

\* Python's `not s` for an Optional[str].
Falsy(s) == s = None \/ s = ""

\* str.lower() on the header names the model uses.
Lower(k) ==
    CASE k = "Authorization" -> "authorization"
      [] k = "AUTHORIZATION" -> "authorization"
      [] k = "X-Trace" -> "x-trace"
      [] OTHER -> k

RangeOf(f) == {f[k] : k \in DOMAIN f}

EmptyMap == [k \in {} |-> ""]

-----------------------------------------------------------------------------
(* HingeClient.__init__                                                    *)

BASE_URL == "https://prod-api.hingeaws.net"

IdentityKeys ==
    {"x-app-version", "x-os-version", "x-os-version-code", "x-device-model",
     "x-device-model-code", "x-device-manufacturer", "x-build-number",
     "x-device-platform", "x-install-id", "x-device-id", "accept-language",
     "x-device-region", "host", "connection", "accept-encoding", "user-agent"}

Bearer(auth_token) == "Bearer " \o auth_token

\* The fixed and configured identity headers (client.py lines 55-72), with
\* the constructor's defaults for the parameters the model leaves alone.
IdentityHeaders(install_id, device_id) ==
    [k \in IdentityKeys |->
        CASE k = "x-app-version" -> "9.75.0"
          [] k = "x-os-version" -> "14"
          [] k = "x-os-version-code" -> "34"
          [] k = "x-device-model" -> "Pixel 6a"
          [] k = "x-device-model-code" -> "Pixel 6a"
          [] k = "x-device-manufacturer" -> "Google"
          [] k = "x-build-number" -> "168200482"
          [] k = "x-device-platform" -> "android"
          [] k = "x-install-id" -> install_id
          [] k = "x-device-id" -> device_id
          [] k = "accept-language" -> "en-US"
          [] k = "x-device-region" -> "US"
          [] k = "host" -> "prod-api.hingeaws.net"
          [] k = "connection" -> "Keep-Alive"
          [] k = "accept-encoding" -> "gzip"
          [] k = "user-agent" -> "okhttp/4.12.0"]

\* default_headers with the x-session-id key set whatever session_id is.
DefaultHeaders_AlwaysSession(auth_token, install_id, device_id, session_id) ==
    LET keys == IdentityKeys
                \cup (IF Falsy(auth_token) THEN {} ELSE {"authorization"})
                \cup {"x-session-id"}
        ident == IdentityHeaders(install_id, device_id)
    IN  [k \in keys |->
            CASE k = "authorization" -> Bearer(auth_token)
              [] k = "x-session-id" -> session_id
              [] OTHER -> ident[k]]

\* default_headers: the identity headers, plus authorization when auth_token
\* is truthy and x-session-id when session_id is truthy.
DefaultHeaders(auth_token, install_id, device_id, session_id) ==
    LET keys == IdentityKeys
                \cup (IF Falsy(auth_token) THEN {} ELSE {"authorization"})
                \cup (IF Falsy(session_id) THEN {} ELSE {"x-session-id"})
        ident == IdentityHeaders(install_id, device_id)
    IN  [k \in keys |->
            CASE k = "authorization" -> Bearer(auth_token)
              [] k = "x-session-id" -> session_id
              [] OTHER -> ident[k]]

NoClient == [none |-> TRUE]

NewClient(auth_token, install_id, device_id, user_id, session_id) ==
    [auth_token |-> auth_token,
     session_id |-> session_id,
     user_id |-> user_id,
     default_headers |->
        DefaultHeaders(auth_token, install_id, device_id, session_id)]

-----------------------------------------------------------------------------
(* Logging.  A record carries its level, its format string and the set of  *)
(* strings its rendered arguments contain.                                 *)

LevelNo(l) ==
    CASE l = "DEBUG" -> 10
      [] l = "INFO" -> 20
      [] l = "WARNING" -> 30
      [] l = "ERROR" -> 40

\* Logger.isEnabledFor: a record is handed to the handler when its level is
\* at least the logger's.
Log(level, l, msg, strs) ==
    IF LevelNo(l) >= LevelNo(level)
    THEN <<[level |-> l, msg |-> msg, strs |-> strs]>>
    ELSE <<>>

\* The strings the %s rendering of a body shows.
BodyStrs(b) ==
    CASE b.t = "None" -> {}
      [] b.t = "dict" -> DOMAIN b.v \cup RangeOf(b.v)
      [] b.t = "str" -> {b.v}

\* __init__, line 79.
InitLog(level, device_id) ==
    Log(level, "DEBUG", "Initialized HingeClient with device ID: %s",
        {device_id})

-----------------------------------------------------------------------------
(* hingesdk/exceptions.py: the three error kinds.  Each carries a message  *)
(* and a details mapping; a HingeRequestError also the status code and the *)
(* raw response body.                                                      *)

HingeAPIError(message, details) ==
    [type |-> "HingeAPIError", message |-> message, details |-> details]

HingeAuthError(message, details) ==
    [type |-> "HingeAuthError", message |-> message, details |-> details]

HingeRequestError(status_code, message, response_body) ==
    [type |-> "HingeRequestError", status_code |-> status_code,
     message |-> message, response_body |-> response_body,
     details |-> EmptyMap]

\* error.details[k] = v for each k of `items`.
SetItems(details, items) ==
    [k \in DOMAIN details \cup DOMAIN items |->
        IF k \in DOMAIN items THEN items[k] ELSE details[k]]

-----------------------------------------------------------------------------
(* The HTTP session (the requests library).  A call either yields a        *)
(* response or raises a RequestException without one.                      *)

HttpResponse(status_code, body) ==
    [kind |-> "response", status_code |-> status_code, body |-> body]

TransportFailure(exception_type, msg) ==
    [kind |-> "exception", exception_type |-> exception_type, msg |-> msg]

\* raise_for_status raising for redirect statuses as well.
RaisesForStatus_Redirects(status_code) ==
    300 <= status_code /\ status_code < 600

\* Response.raise_for_status raises HTTPError for 400 <= status < 600 only.
RaisesForStatus(status_code) == 400 <= status_code /\ status_code < 600

\* str(HTTPError): "<status> Client|Server Error: <reason> for url: <url>".
HTTPErrorText(status_code, url) ==
    ToString(status_code)
    \o (IF status_code < 500 THEN " Client Error" ELSE " Server Error")
    \o " for url: " \o url

-----------------------------------------------------------------------------
(* HingeClient._request                                                    *)

\* The merge the other way round: the caller's value wins.
MergeHeaders_CallerWins(headers, default_headers) ==
    [k \in DOMAIN headers \cup DOMAIN default_headers |->
        IF k \in DOMAIN headers THEN headers[k] ELSE default_headers[k]]

\* Lines 83-85: a copy of the caller's headers, updated with default_headers.
MergeHeaders(headers, default_headers) ==
    [k \in DOMAIN headers \cup DOMAIN default_headers |->
        IF k \in DOMAIN default_headers THEN default_headers[k] ELSE headers[k]]

\* The merge done in place, on the mapping the caller passed.
AfterMerge_InPlace(headers, default_headers) ==
    [caller |-> MergeHeaders(headers, default_headers),
     own |-> default_headers]

\* Lines 83-84: the mapping the caller passed and the client's own mapping
\* once the merge is done.  The merge writes to the copy made at line 83 and
\* only reads default_headers.
AfterMerge(headers, default_headers) ==
    [caller |-> headers, own |-> default_headers]

\* The filter with a case-sensitive comparison.
SanitizedHeaders_CaseSensitive(headers) ==
    [k \in {h \in DOMAIN headers : h # "authorization"} |-> headers[k]]

\* Lines 104-108: the headers without any key that lowercases to
\* "authorization".
SanitizedHeaders(headers) ==
    [k \in {h \in DOMAIN headers : Lower(h) # "authorization"} |-> headers[k]]

\* Line 109 (and line 89): kwargs.get("json") or kwargs.get("data").
RequestBody(json, data) == PyOr(json, data)

\* kwargs as handed to session.request (line 92).
PrepareRequest(c, method, url, headers, json, data) ==
    [method |-> method, url |-> url,
     headers |-> MergeHeaders(headers, c.default_headers),
     json |-> json, data |-> data]

\* Lines 87-89: what is logged before the call.
SendLogs(level, req) ==
    Log(level, "DEBUG", "Sending %s request to URL: %s", {req.method, req.url})
    \o Log(level, "DEBUG", "Request headers: %s",
           DOMAIN req.headers \cup RangeOf(req.headers))
    \o Log(level, "DEBUG", "Request body: %s",
           BodyStrs(RequestBody(req.json, req.data)))

\* Lines 98-109: the error payload built on an HTTP error status.
ErrorPayload(req, o) ==
    LET error == HingeRequestError(o.status_code,
                                   HTTPErrorText(o.status_code, req.url),
                                   o.body)
    IN  [error EXCEPT !.details =
            SetItems(@, [endpoint |-> req.url,
                         request_headers |-> SanitizedHeaders(req.headers),
                         request_body |-> RequestBody(req.json, req.data)])]

\* The classification without the 412 branch.
ClassifyHTTPError_No412(error) ==
    IF error.status_code = 401
    THEN HingeAuthError("Authentication failed", error.details)
    ELSE error

\* Lines 111-115: which error an HTTP error status raises.
ClassifyHTTPError(error) ==
    IF error.status_code = 401
    THEN HingeAuthError("Authentication failed", error.details)
    ELSE IF error.status_code = 412
         THEN HingeAuthError("Precondition failed", error.details)
         ELSE error

\* The transport error with url and method interchanged.
TransportError_Swapped(req, o) ==
    HingeAPIError("Request failed: " \o o.msg,
                  [exception_type |-> o.exception_type,
                   url |-> req.method, method |-> req.url])

\* Lines 116-121: the error a transport failure raises.
TransportError(req, o) ==
    HingeAPIError("Request failed: " \o o.msg,
                  [exception_type |-> o.exception_type,
                   url |-> req.url, method |-> req.method])

\* Lines 91-121: the outcome of the call, as returned or raised.
CompleteRequest(req, o) ==
    IF o.kind = "exception"
    THEN [kind |-> "raised", error |-> TransportError(req, o)]
    ELSE IF RaisesForStatus(o.status_code)
         THEN [kind |-> "raised",
               error |-> ClassifyHTTPError(ErrorPayload(req, o))]
         ELSE [kind |-> "returned", response |-> o]

\* A finished call: what it returned or raised, with the request sent and
\* the outcome the HTTP session gave.
CallRecord(req, o) ==
    LET res == CompleteRequest(req, o)
    IN  IF res.kind = "raised"
        THEN [kind |-> "raised", error |-> res.error, req |-> req,
              outcome |-> o]
        ELSE [kind |-> "returned", response |-> res.response, req |-> req,
              outcome |-> o]

\* Lines 94, 97, 117: what is logged after the call.
CompleteLogs(level, req, o) ==
    IF o.kind = "exception"
    THEN Log(level, "ERROR", "Non-HTTP request error occurred",
             {o.exception_type, o.msg})
    ELSE IF RaisesForStatus(o.status_code)
         THEN Log(level, "ERROR", "HTTP error occurred: %s",
                  {HTTPErrorText(o.status_code, req.url)})
         ELSE Log(level, "DEBUG", "Response status: %s", {})

-----------------------------------------------------------------------------
(* Response bodies.  A body is a text that is no JSON, the JSON value null *)
(* or a JSON object with the fields the verify endpoint may send; a field  *)
(* the object lacks is Absent.                                             *)

TextBody(s) == [t |-> "text", v |-> s]
NullBody == [t |-> "null"]
ObjBody(token, playerId, sessionId, caseId, message) ==
    [t |-> "obj", token |-> token, playerId |-> playerId,
     sessionId |-> sessionId, caseId |-> caseId, message |-> message]

\* Response.json() raises JSONDecodeError on a body that is no JSON.
JsonFails(body) == body.t = "text"

\* dict.get(k): None for a missing key.
Get(d, k) == IF d[k] = Absent THEN None ELSE d[k]

\* `k in d`
Has(d, k) == d[k] # Absent

\* The strings the raw text of a response body shows.
ResponseStrs(body) ==
    CASE body.t = "text" -> {body.v}
      [] body.t = "null" -> {"null"}
      [] body.t = "obj" ->
            {body[k] : k \in {"token", "playerId", "sessionId", "caseId",
                              "message"}} \ {Absent}

\* uuid.uuid4(): an identifier that was not handed out before; n counts the
\* identifiers handed out so far.
Uuid4(n) == "uuid4-" \o ToString(n + 1)

-----------------------------------------------------------------------------
(* HingeClient.login_with_sms                                              *)

InitiateUrl == BASE_URL \o "/auth/sms/v2/initiate"
VerifyUrl == BASE_URL \o "/auth/sms/v2"

\* Line 158.
JsonHeaders == [k \in {"content-type"} |-> "application/json; charset=UTF-8"]

\* Line 157.
InitiatePayload(a) ==
    JsonObj([phoneNumber |-> a.phone_number, deviceId |-> a.device_id])

\* The verify payload with the code and the install id in each other's place.
VerifyPayload_Swapped(a, code) ==
    JsonObj([deviceId |-> a.device_id, installId |-> code,
             phoneNumber |-> a.phone_number, otp |-> a.install_id])

\* Lines 169-174.
VerifyPayload(a, code) ==
    JsonObj([deviceId |-> a.device_id, installId |-> a.install_id,
             phoneNumber |-> a.phone_number, otp |-> code])

\* The temporary client built with a token and a session id.
TempClient_WithToken(a) == NewClient("T1", a.install_id, a.device_id, None, "S1")

\* Line 154: cls(device_id=device_id, install_id=install_id).
TempClient(a) == NewClient(None, a.install_id, a.device_id, None, None)

\* The fields with the user id read from the wrong key.
SessionOf_WrongKey(verify_data) ==
    [auth_token |-> Get(verify_data, "token"),
     user_id |-> Get(verify_data, "sessionId"),
     session_id |-> Get(verify_data, "sessionId")]

\* Lines 204-206: the session fields taken from the verify response.
SessionOf(verify_data) ==
    [auth_token |-> Get(verify_data, "token"),
     user_id |-> Get(verify_data, "playerId"),
     session_id |-> Get(verify_data, "sessionId")]

\* The test as `auth_token is None`.
TokenMissing_NoneOnly(auth_token) == auth_token = None

\* Line 213: `not auth_token`.
TokenMissing(auth_token) == Falsy(auth_token)

\* The run going on to read a code whatever the initiate call did.
AfterInitiate_Always(res) == "AwaitingCode"

\* The run sending the initiate request again when the call failed.
AfterInitiate_Retry(res) ==
    IF res.kind = "returned" THEN "AwaitingCode" ELSE "Unauthenticated"

\* Lines 160-166: where the run goes when the initiate call has ended.
AfterInitiate(res) ==
    IF res.kind = "returned" THEN "AwaitingCode" ELSE "Failed"

\* The fallback as one fixed identifier.
SessionIdOrFallback_Fixed(session_id, n) ==
    IF Falsy(session_id) THEN "00000000-0000-0000-0000-000000000000"
    ELSE session_id

\* Lines 219-220: the session id of the response, or a generated one.
SessionIdOrFallback(session_id, n) ==
    IF Falsy(session_id) THEN Uuid4(n) ELSE session_id

Raised(error) == [kind |-> "raised", error |-> error]
Returned(c) == [kind |-> "returned", client |-> c]

\* The parse error without the raw text of the response.
ParseFailure_NoText(r) ==
    HingeAPIError("Failed to parse verification response",
                  [status_code |-> r.status_code,
                   response_text |-> TextBody("")])

\* Lines 183-190: the error raised when the verify response is no JSON.
ParseFailure(r) ==
    HingeAPIError("Failed to parse verification response",
                  [status_code |-> r.status_code,
                   response_text |-> r.body])

\* Lines 180-231: what the run does with the response r of the verify call.
\* A JSON value that is no object has no `in` and no get().
FinishLogin(a, r, n) ==
    IF JsonFails(r.body)
    THEN Raised(ParseFailure(r))
    ELSE LET verify_data == r.body IN
    IF r.status_code = 412 /\ verify_data.t # "obj"
    THEN Raised([type |-> "TypeError",
                 message |-> "argument of type 'NoneType' is not iterable"])
    ELSE IF r.status_code = 412 /\ Has(verify_data, "caseId")
    THEN Raised(HingeAuthError("Email verification required",
                               [case_id |-> Get(verify_data, "caseId"),
                                message |-> Get(verify_data, "message")]))
    ELSE IF verify_data.t # "obj"
    THEN Raised([type |-> "AttributeError",
                 message |-> "'NoneType' object has no attribute 'get'"])
    ELSE LET auth_token == SessionOf(verify_data).auth_token
             user_id == SessionOf(verify_data).user_id
             session_id == SessionOf(verify_data).session_id
         IN  IF TokenMissing(auth_token)
             THEN Raised(HingeAPIError(
                             "Failed to retrieve authentication token",
                             [response |-> verify_data]))
             ELSE Returned(NewClient(auth_token, a.install_id, a.device_id,
                                     user_id,
                                     SessionIdOrFallback(session_id, n)))

\* Whether line 220 runs: the run got as far as line 219 with no session id.
TakesFallback(r) ==
    /\ ~JsonFails(r.body)
    /\ r.body.t = "obj"
    /\ ~(r.status_code = 412 /\ Has(r.body, "caseId"))
    /\ ~TokenMissing(SessionOf(r.body).auth_token)
    /\ Falsy(SessionOf(r.body).session_id)

\* Lines 183, 193, 208-211, 214, 221 and the new client's line 79: what the
\* run logs after the verify call has returned r.
FinishLoginLogs(level, a, r, n) ==
    IF JsonFails(r.body)
    THEN Log(level, "ERROR", "Failed to parse verification response", {})
    ELSE LET verify_data == r.body IN
    IF verify_data.t # "obj"
    THEN <<>>
    ELSE IF r.status_code = 412 /\ Has(verify_data, "caseId")
    THEN Log(level, "WARNING", "Email verification required, case ID: %s",
             {Get(verify_data, "caseId")})
    ELSE LET auth_token == SessionOf(verify_data).auth_token
             user_id == SessionOf(verify_data).user_id
             session_id == SessionOf(verify_data).session_id
         IN  Log(level, "INFO",
                 "Verification successful. Token and session retrieved.", {})
             \o Log(level, "DEBUG", "Auth Token: %s", {auth_token})
             \o Log(level, "DEBUG", "User ID: %s", {user_id})
             \o Log(level, "DEBUG", "Session ID: %s", {session_id})
             \o (IF TokenMissing(auth_token)
                 THEN Log(level, "ERROR", "No auth token received.", {})
                 ELSE (IF Falsy(session_id)
                       THEN Log(level, "WARNING",
                                "No session ID received; generated fallback session ID: %s",
                                {Uuid4(n)})
                       ELSE <<>>)
                      \o InitLog(level, a.device_id))

-----------------------------------------------------------------------------
(* The inputs the model draws from.                                        *)

Tokens == {"T1", "T2"}
UserIds == {"U1"}
SessionIds == {"S1"}
PhoneNumbers == {"+15550100"}
DeviceIds == {"dev-a", "dev-b"}
InstallIds == {"inst-a"}
Codes == {"123456", "654321"}

Methods == {"GET", "POST"}
Urls == {BASE_URL \o "/user/v2/public"}

CallerHeaders ==
    {EmptyMap,
     [k \in {"Authorization"} |-> "Bearer caller"],
     [k \in {"authorization", "X-Trace"} |->
        IF k = "authorization" THEN "Bearer caller" ELSE "trace-1"],
     [k \in {"x-device-id"} |-> "spoofed"]}

JsonArgs == {NoBody, JsonObj(EmptyMap), JsonObj([q |-> "1"])}
DataArgs == {NoBody, Data("raw")}

Statuses == {200, 399, 400, 401, 412, 500, 599, 600}

TransportFailures ==
    {TransportFailure("ConnectionError", "connection refused"),
     TransportFailure("Timeout", "timed out")}

\* The outcomes of a direct call and of the initiate call.
PlainOutcomes ==
    {HttpResponse(st, TextBody("")) : st \in Statuses}
    \cup TransportFailures

VerifyObjects ==
    {ObjBody(tok, pid, sid, Absent, Absent) :
        tok \in Tokens \cup {Absent, ""},
        pid \in UserIds \cup {Absent},
        sid \in SessionIds \cup {Absent, ""}}
    \cup {ObjBody(tok, Absent, Absent, "C1", msg) :
            tok \in {Absent, "T1"}, msg \in {Absent, "verify email"}}

VerifyBodies == VerifyObjects \cup {TextBody("<html>"), NullBody}

\* The outcomes of the verify call.
VerifyOutcomes ==
    {HttpResponse(st, b) : st \in Statuses, b \in VerifyBodies}
    \cup TransportFailures

-----------------------------------------------------------------------------
(* hingesdk/tools.py: HingeTools.  The API client and the media client are *)
(* collaborators: each call of theirs returns a value or raises.           *)

\* Python's dict.get(k, default) on a mapping.
GetOr(d, k, default) == IF k \in DOMAIN d THEN d[k] ELSE default

\* os.path.splitext(url)[1] on the urls the model uses.
SplitExt(url) ==
    CASE url = "https://media.example/a.png" -> ".png"
      [] url = "https://media.example/b.gif" -> ".gif"
      [] url = "https://media.example/c" -> ""
      [] url = "" -> ""

\* Lines 110-111: the extension of the photo's url, ".jpg" when it has none.
Ext(photo) ==
    LET e == SplitExt(GetOr(photo, "url", ""))
    IN  IF e = "" THEN ".jpg" ELSE e

\* Line 103.
CdnId(photo) == GetOr(photo, "cdnId", None)

\* Line 114: the path asked of the media client.
ImagePath(photo) == "image/upload/" \o CdnId(photo) \o Ext(photo)

\* Line 117: the file name under the user's folder.
PhotoFile(idx, photo) == "photo_" \o ToString(idx) \o Ext(photo)

\* Lines 68-69 and 95: profile.get("profile", {}).get("photos", []).
PhotosOf(profile) == GetOr(GetOr(profile, "profile", EmptyMap), "photos", <<>>)

\* Lines 53-56: the subject ids of the recommendations, feed by feed.
RECURSIVE CollectIds(_, _)
CollectIds(feeds, k) ==
    IF k > Len(feeds)
    THEN <<>>
    ELSE LET subjects == GetOr(feeds[k], "subjects", <<>>)
         IN  [j \in 1..Len(subjects) |-> subjects[j].subjectId]
             \o CollectIds(feeds, k + 1)

UserIdsOf(recommendations) ==
    CollectIds(GetOr(recommendations, "feeds", <<>>), 1)

NoFetch == [done |-> TRUE, p |-> 0, idx |-> 0]

\* The loops with `break` in place of `continue` at a photo without cdnId.
RECURSIVE NextFetch_Break(_, _, _)
NextFetch_Break(profiles, p, idx) ==
    IF p > Len(profiles)
    THEN NoFetch
    ELSE IF idx >= Len(PhotosOf(profiles[p]))
         THEN NextFetch_Break(profiles, p + 1, 0)
         ELSE IF Falsy(CdnId(PhotosOf(profiles[p])[idx + 1]))
              THEN NextFetch_Break(profiles, p + 1, 0)
              ELSE [done |-> FALSE, p |-> p, idx |-> idx]

\* Lines 67-69 and 102-106: the loops over the profiles and over the photos
\* of each, from photo idx of profile p on, up to the next photo that has a
\* cdnId; photos without one are skipped, profiles without photos too.
RECURSIVE NextFetch(_, _, _)
NextFetch(profiles, p, idx) ==
    IF p > Len(profiles)
    THEN NoFetch
    ELSE IF idx >= Len(PhotosOf(profiles[p]))
         THEN NextFetch(profiles, p + 1, 0)
         ELSE IF Falsy(CdnId(PhotosOf(profiles[p])[idx + 1]))
              THEN NextFetch(profiles, p, idx + 1)
              ELSE [done |-> FALSE, p |-> p, idx |-> idx]

\* Lines 58-60 and 71-74: the value returned.
Content(recommendations, profiles) ==
    [recommendations |-> recommendations, profiles |-> profiles]

-----------------------------------------------------------------------------
(* Inputs of HingeTools.                                                   *)

Subject(u) == [subjectId |-> u]

\* What get_recommendations returns.
Recommendations ==
    {EmptyMap,
     [feeds |-> <<>>],
     [feeds |-> <<EmptyMap>>],
     [feeds |-> <<[subjects |-> <<>>]>>],
     [feeds |-> <<[subjects |-> <<Subject("u1")>>]>>],
     [feeds |-> <<[subjects |-> <<Subject("u1")>>], EmptyMap,
                  [subjects |-> <<Subject("u2")>>]>>]}

PhotoKinds ==
    {[cdnId |-> "cdn-1", url |-> "https://media.example/a.png"],
     [cdnId |-> "cdn-2"],
     [url |-> "https://media.example/b.gif"]}

PhotoLists == UNION {[1..n -> PhotoKinds] : n \in 0..MaxPhotos}

\* The profiles get_public_users may return for one user.
ProfilesOf(u) ==
    {[identityId |-> u], [identityId |-> u, profile |-> EmptyMap]}
    \cup {[identityId |-> u, profile |-> [photos |-> photos]] :
            photos \in PhotoLists}

\* What get_public_users(user_ids) returns: a profile for each id asked, or
\* no profile at all.
ProfileLists(user_ids) ==
    {<<>>} \cup {profiles \in [1..Len(user_ids) -> UNION {ProfilesOf(user_ids[i]) :
                                            i \in 1..Len(user_ids)}] :
                    \A i \in 1..Len(user_ids) :
                        profiles[i].identityId = user_ids[i]}

\* Every list of profiles get_public_users may return in some run.
AllProfileLists ==
    UNION {ProfileLists(UserIdsOf(r)) : r \in Recommendations}

\* The errors a call of the API client raises.
ApiErrors ==
    {HingeAPIError("Request failed: timed out", EmptyMap),
     HingeAuthError("Authentication failed", EmptyMap),
     [type |-> "ValueError", message |-> "bad response"]}

\* How the fetch and the saving of one photo end.
PhotoOutcomes == {"saved", "fetch_fails", "save_fails"}

-----------------------------------------------------------------------------
(* The state machine.                                                      *)

NoResult == [kind |-> "none"]
NoArgs == [none |-> TRUE]
NoRequest == [none |-> TRUE]

\* No download_recommendation_content run yet.
ToolsIdle ==
    [pc |-> "Idle", calls |-> <<>>, recommendations |-> EmptyMap,
     user_ids |-> <<>>, profiles |-> <<>>, at |-> NoFetch, fetched |-> <<>>,
     saved |-> {}, raisedBy |-> NoResult, result |-> NoResult]

Init ==
    /\ client = NoClient
    /\ lastResult = NoResult
    /\ loggerLevel = "WARNING"
    /\ emitted = <<>>
    /\ pc = "Idle"
    /\ args = NoArgs
    /\ temp_client = NoClient
    /\ inFlight = NoRequest
    /\ flowCall = NoResult
    /\ sms_code = None
    /\ flowResult = NoResult
    /\ runs = 0
    /\ initiateCount = 0
    /\ verifyCount = 0
    /\ codeCount = 0
    /\ initiateBody = NoBody
    /\ uuidCount = 0
    /\ fallbacks = <<>>
    /\ tools = ToolsIdle

flowVars == <<pc, args, temp_client, inFlight, flowCall, sms_code, flowResult, runs,
              initiateCount, verifyCount, codeCount, initiateBody, uuidCount,
              fallbacks>>

\* HingeClient(auth_token=..., install_id=..., device_id=..., user_id=...,
\* session_id=...), called by the application.
Construct(auth_token, install_id, device_id, user_id, session_id) ==
    /\ client' = NewClient(auth_token, install_id, device_id, user_id,
                           session_id)
    /\ emitted' = InitLog(loggerLevel, device_id)
    /\ lastResult' = NoResult
    /\ UNCHANGED <<loggerLevel, flowVars, tools>>

\* client._request(method, url, headers=headers, json=json, data=data), with
\* o the outcome of the HTTP call.
Request(method, url, headers, json, data, o) ==
    /\ client # NoClient
    /\ LET req == PrepareRequest(client, method, url, headers, json, data)
           after == AfterMerge(headers, client.default_headers)
       IN  /\ lastResult' =
                [call |-> [method |-> method, url |-> url,
                           headers |-> headers, json |-> json,
                           data |-> data, headers_after |-> after.caller],
                 done |-> CallRecord(req, o)]
           /\ client' = [client EXCEPT !.default_headers = after.own]
           /\ emitted' = SendLogs(loggerLevel, req)
                         \o CompleteLogs(loggerLevel, req, o)
    /\ UNCHANGED <<loggerLevel, flowVars, tools>>

\* login_with_sms is called: lines 141-158.
StartLogin(phone_number, device_id, install_id) ==
    /\ pc \in {"Idle", "Authenticated", "Failed"}
    /\ runs < MaxRuns
    /\ runs' = runs + 1
    /\ pc' = "Unauthenticated"
    /\ args' = [phone_number |-> phone_number, device_id |-> device_id,
                install_id |-> install_id]
    /\ loggerLevel' = "DEBUG"
    /\ temp_client' = TempClient(args')
    /\ emitted' = Log("DEBUG", "INFO", "Starting SMS login for phone: %s",
                      {phone_number})
                  \o InitLog("DEBUG", device_id)
    /\ inFlight' = NoRequest
    /\ flowCall' = NoResult
    /\ sms_code' = None
    /\ flowResult' = NoResult
    /\ initiateCount' = 0
    /\ verifyCount' = 0
    /\ codeCount' = 0
    /\ initiateBody' = NoBody
    /\ UNCHANGED <<client, lastResult, uuidCount, fallbacks, tools>>

\* Line 160, up to the HTTP call: the initiate request is sent.
SendInitiate ==
    /\ pc = "Unauthenticated"
    /\ LET req == PrepareRequest(temp_client, "POST", InitiateUrl,
                                 JsonHeaders, InitiatePayload(args), NoBody)
       IN  /\ inFlight' = req
           /\ initiateBody' = req.json
           /\ emitted' = SendLogs(loggerLevel, req)
    /\ initiateCount' = initiateCount + 1
    /\ pc' = "Initiating"
    /\ UNCHANGED <<tools, client, lastResult, loggerLevel, args, temp_client,
                   flowCall, sms_code, flowResult, runs, verifyCount,
                   codeCount, uuidCount, fallbacks>>

\* Lines 160-164: the initiate call ends with outcome o.
InitiateOutcome(o) ==
    /\ pc = "Initiating"
    /\ LET res == CallRecord(inFlight, o)
       IN  /\ flowCall' = res
           /\ emitted' =
                CompleteLogs(loggerLevel, inFlight, o)
                \o (IF res.kind = "returned"
                    THEN Log(loggerLevel, "INFO",
                             "SMS initiation response code: %d", {})
                         \o Log(loggerLevel, "DEBUG",
                                "SMS initiation response text: '%s'",
                                ResponseStrs(o.body))
                    ELSE <<>>)
           /\ pc' = AfterInitiate(res)
           /\ IF res.kind = "returned"
              THEN UNCHANGED flowResult
              ELSE flowResult' = Raised(res.error)
    /\ UNCHANGED <<tools, client, lastResult, loggerLevel, args, temp_client,
                   inFlight, sms_code, runs, initiateCount, verifyCount,
                   codeCount, initiateBody, uuidCount, fallbacks>>

\* Lines 166-176: input() returns code, and the verify request is sent.
AcquireCode(code) ==
    /\ pc = "AwaitingCode"
    /\ sms_code' = code
    /\ codeCount' = codeCount + 1
    /\ LET req == PrepareRequest(temp_client, "POST", VerifyUrl, JsonHeaders,
                                 VerifyPayload(args, code), NoBody)
       IN  /\ inFlight' = req
           /\ emitted' = SendLogs(loggerLevel, req)
    /\ verifyCount' = verifyCount + 1
    /\ pc' = "Verifying"
    /\ UNCHANGED <<tools, client, lastResult, loggerLevel, args, temp_client,
                   flowCall, flowResult, runs, initiateCount, initiateBody,
                   uuidCount, fallbacks>>

\* Lines 176-231: the verify call ends with outcome o, and the run returns
\* the new client or raises.
VerifyOutcome(o) ==
    /\ pc = "Verifying"
    /\ flowCall' = CallRecord(inFlight, o)
    /\ LET res == CallRecord(inFlight, o)
       IN  IF res.kind = "raised"
           THEN /\ flowResult' = Raised(res.error)
                /\ pc' = "Failed"
                /\ emitted' = CompleteLogs(loggerLevel, inFlight, o)
                /\ UNCHANGED <<client, uuidCount, fallbacks>>
           ELSE LET fin == FinishLogin(args, o, uuidCount)
                IN  /\ flowResult' = fin
                    /\ emitted' = CompleteLogs(loggerLevel, inFlight, o)
                                  \o FinishLoginLogs(loggerLevel, args, o,
                                                     uuidCount)
                    /\ IF fin.kind = "returned"
                       THEN pc' = "Authenticated" /\ client' = fin.client
                       ELSE pc' = "Failed" /\ UNCHANGED client
                    /\ IF TakesFallback(o)
                       THEN /\ uuidCount' = uuidCount + 1
                            /\ fallbacks' =
                                  Append(fallbacks, fin.client.session_id)
                       ELSE UNCHANGED <<uuidCount, fallbacks>>
    /\ UNCHANGED <<tools, lastResult, loggerLevel, args, temp_client, inFlight,
                   sms_code, runs, initiateCount, verifyCount, codeCount,
                   initiateBody>>

\* The application builds clients and calls _request on them.
NextRequest ==
    \/ \E auth_token \in {None, "", "T1"}, install_id \in InstallIds,
          device_id \in {"dev-a"}, user_id \in {None},
          session_id \in SessionIds \cup {None} :
            Construct(auth_token, install_id, device_id, user_id, session_id)
    \/ \E method \in Methods, url \in Urls, headers \in CallerHeaders,
          json \in JsonArgs, data \in DataArgs, o \in PlainOutcomes :
            Request(method, url, headers, json, data, o)

SpecRequest == Init /\ [][NextRequest]_vars

\* The application runs login_with_sms, up to MaxRuns times in a row.
Next ==
    \/ \E phone_number \in PhoneNumbers, device_id \in DeviceIds,
          install_id \in InstallIds :
            StartLogin(phone_number, device_id, install_id)
    \/ SendInitiate
    \/ \E o \in PlainOutcomes : InitiateOutcome(o)
    \/ \E code \in Codes : AcquireCode(code)
    \/ \E o \in VerifyOutcomes : VerifyOutcome(o)

Spec == Init /\ [][Next]_vars

-----------------------------------------------------------------------------
(* Properties of _request, checked under SpecRequest.                      *)

Called == "done" \in DOMAIN lastResult

\* The error kind the last direct call raised, "none" when it returned.
RaisedType(done) == IF done.kind = "raised" THEN done.error.type ELSE "none"

GotStatus(done) == done.outcome.kind = "response"

ErrorTypes == {"HingeAuthError", "HingeRequestError", "HingeAPIError"}

BodySent(json, data) ==
    IF ~Truthy(data) /\ json # NoBody THEN json ELSE data

HTTPErrorRaised(d) ==
    RaisedType(d) \in {"HingeAuthError", "HingeRequestError"}

\* The details' request_headers are the headers sent, less the keys that
\* are "authorization" in any case, and hold no authorization value.
HeadersSanitized(d) ==
    LET sent == d.req.headers
        kept == d.error.details.request_headers
        authKeys == {k \in DOMAIN sent : Lower(k) = "authorization"}
    IN  /\ DOMAIN kept = DOMAIN sent \ authKeys
        /\ \A k \in DOMAIN kept : kept[k] = sent[k]
        /\ \A k \in authKeys : sent[k] \notin RangeOf(kept)

\* C4, as claimed: on an HTTP error status the details hold the requested
\* url as endpoint, the request body as request_body and the sanitized
\* headers as request_headers.
C4_AsClaimed ==
    (Called /\ HTTPErrorRaised(lastResult.done)) =>
        LET d == lastResult.done
            c == lastResult.call
        IN  /\ {"endpoint", "request_headers", "request_body"}
                    \subseteq DOMAIN d.error.details
            /\ d.error.details.endpoint = c.url
            /\ d.error.details.request_body = BodySent(c.json, c.data)
            /\ HeadersSanitized(d)

\* C4, amended: on an HTTP error status the details hold the requested url
\* as endpoint, the sanitized headers as request_headers, and as
\* request_body the json argument when it is truthy and the data argument
\* otherwise.
C4_ErrorDetails ==
    (Called /\ HTTPErrorRaised(lastResult.done)) =>
        LET d == lastResult.done
            c == lastResult.call
        IN  /\ {"endpoint", "request_headers", "request_body"}
                    \subseteq DOMAIN d.error.details
            /\ d.error.details.endpoint = c.url
            /\ d.error.details.request_body
                    = (IF Truthy(c.json) THEN c.json ELSE c.data)
            /\ HeadersSanitized(d)

C4_Witness ==
    /\ Called
    /\ RaisedType(lastResult.done) = "HingeAuthError"
    /\ "Authorization" \in DOMAIN lastResult.call.headers
    /\ "authorization" \in DOMAIN lastResult.done.req.headers
    /\ Truthy(lastResult.call.json)
    /\ "x-device-id" \in DOMAIN lastResult.done.error.details.request_headers

\* C10: a call whose transport fails without a response raises an APIError
\* whose details hold exception_type, url and method, url and method being
\* those of the call.
C10_TransportFailure ==
    (Called /\ ~GotStatus(lastResult.done)) =>
        LET d == lastResult.done
            c == lastResult.call
        IN  /\ d.kind = "raised"
            /\ d.error.type = "HingeAPIError"
            /\ {"exception_type", "url", "method"}
                    \subseteq DOMAIN d.error.details
            /\ d.error.details.exception_type = d.outcome.exception_type
            /\ d.error.details.url = c.url
            /\ d.error.details.method = c.method

C10_Witness ==
    /\ Called
    /\ ~GotStatus(lastResult.done)
    /\ lastResult.call.method = "POST"
    /\ lastResult.done.outcome.exception_type = "Timeout"
    /\ RaisedType(lastResult.done) = "HingeAPIError"

-----------------------------------------------------------------------------
(* Properties of login_with_sms, checked under Spec.                       *)

\* The run has ended after its verify call.
VerifyEnded == pc \in {"Authenticated", "Failed"} /\ verifyCount = 1

\* The verify call got a response with this status and a JSON object.
VerifyGotObject(status_code) ==
    /\ VerifyEnded
    /\ GotStatus(flowCall)
    /\ flowCall.outcome.status_code = status_code
    /\ flowCall.outcome.body.t = "obj"

VerifyBody == flowCall.outcome.body

\* C2, as claimed: a verify response with status 412 and a caseId in its
\* body makes the run fail with AuthError "Email verification required"
\* whose details hold the body's caseId as case_id and its message.
C2_AsClaimed ==
    (VerifyGotObject(412) /\ Has(VerifyBody, "caseId")) =>
        /\ flowResult.kind = "raised"
        /\ flowResult.error.type = "HingeAuthError"
        /\ flowResult.error.message = "Email verification required"
        /\ "case_id" \in DOMAIN flowResult.error.details
        /\ flowResult.error.details.case_id = VerifyBody.caseId
        /\ flowResult.error.details.message = Get(VerifyBody, "message")

\* The tokens the caller's client holds.
HeldTokens ==
    IF client = NoClient \/ Falsy(client.auth_token)
    THEN {}
    ELSE {client.auth_token}

\* C3, as claimed: no log record emitted holds the token of the client or
\* its authorization header value.
C3_AsClaimed ==
    \A i \in DOMAIN emitted : \A t \in HeldTokens :
        t \notin emitted[i].strs /\ Bearer(t) \notin emitted[i].strs

\* C5: a verify response with status 200 and a body holding a non-empty
\* token T, playerId U and a non-empty sessionId S yields a client whose
\* session is exactly T, U, S.
C5_SessionFromResponse ==
    (/\ VerifyGotObject(200)
     /\ VerifyBody.token \notin {Absent, ""}
     /\ VerifyBody.sessionId \notin {Absent, ""}) =>
        /\ pc = "Authenticated"
        /\ flowResult = Returned(client)
        /\ client.auth_token = VerifyBody.token
        /\ client.user_id
            = (IF VerifyBody.playerId = Absent THEN None
               ELSE VerifyBody.playerId)
        /\ client.session_id = VerifyBody.sessionId

C5_Witness ==
    /\ VerifyGotObject(200)
    /\ pc = "Authenticated"
    /\ client.auth_token = "T2"
    /\ client.user_id = "U1"
    /\ client.session_id = "S1"

\* C6: a verify response with status 200 and a body without token makes the
\* run fail with APIError "Failed to retrieve authentication token" whose
\* details hold the parsed body; and no run ends Authenticated with an
\* absent or empty token.
C6_MissingToken ==
    /\ (VerifyGotObject(200) /\ ~Has(VerifyBody, "token")) =>
            /\ pc = "Failed"
            /\ flowResult.kind = "raised"
            /\ flowResult.error.type = "HingeAPIError"
            /\ flowResult.error.message
                = "Failed to retrieve authentication token"
            /\ "response" \in DOMAIN flowResult.error.details
            /\ flowResult.error.details.response = VerifyBody
    /\ pc = "Authenticated" =>
            /\ flowResult.kind = "returned"
            /\ flowResult.client.auth_token \notin {None, Absent, ""}

C6_Witness ==
    /\ VerifyGotObject(200)
    /\ VerifyBody = ObjBody(Absent, Absent, Absent, Absent, Absent)
    /\ pc = "Failed"
    /\ flowResult.error.type = "HingeAPIError"

\* The verify call got a token and no session id.
NoSessionId ==
    /\ VerifyGotObject(200)
    /\ VerifyBody.token \notin {Absent, ""}
    /\ ~Has(VerifyBody, "sessionId")

\* C7: a verify response with a token and no sessionId makes the run end
\* Authenticated with a non-empty generated session id, and the generated
\* session ids of the runs differ from one another.
C7_FallbackSessionId ==
    /\ NoSessionId =>
            /\ pc = "Authenticated"
            /\ client.session_id \notin {None, Absent, ""}
            /\ client.session_id \notin SessionIds
            /\ Len(fallbacks) >= 1
            /\ client.session_id = fallbacks[Len(fallbacks)]
    /\ \A i, j \in DOMAIN fallbacks : i # j => fallbacks[i] # fallbacks[j]

C7_Witness ==
    /\ NoSessionId
    /\ pc = "Authenticated"
    /\ Len(fallbacks) = 2

AllowedSteps ==
    {<<"Idle", "Unauthenticated">>,
     <<"Authenticated", "Unauthenticated">>,
     <<"Failed", "Unauthenticated">>,
     <<"Unauthenticated", "Initiating">>,
     <<"Initiating", "AwaitingCode">>,
     <<"Initiating", "Failed">>,
     <<"AwaitingCode", "Verifying">>,
     <<"Verifying", "Authenticated">>,
     <<"Verifying", "Failed">>}

\* C8: a run moves Unauthenticated, Initiating, AwaitingCode, Verifying,
\* Authenticated in that order; a code is read only after the initiate call
\* has returned; the verify request is sent only with a code read;
\* Authenticated is entered only from Verifying, Failed only from Initiating
\* or Verifying; and after Failed the run does nothing more (the next step
\* is a new run).
C8_FlowOrder ==
    [][/\ pc' # pc => <<pc, pc'>> \in AllowedSteps
       /\ (pc' = "AwaitingCode" /\ pc # "AwaitingCode") =>
            /\ flowCall'.kind = "returned"
            /\ flowCall'.req.url = InitiateUrl
       /\ (codeCount' # codeCount /\ codeCount' # 0) =>
            /\ pc = "AwaitingCode"
            /\ flowCall.kind = "returned"
       /\ (verifyCount' # verifyCount /\ verifyCount' # 0) =>
            /\ pc = "AwaitingCode"
            /\ codeCount' = 1
            /\ sms_code' \in Codes
            /\ inFlight'.json.v.otp = sms_code'
       /\ (pc = "Failed" /\ pc' # "Unauthenticated") =>
            UNCHANGED <<pc, initiateCount, verifyCount, codeCount, sms_code,
                        inFlight, flowResult, client>>
      ]_vars

C8_Witness ==
    /\ pc = "Authenticated"
    /\ runs = 2
    /\ initiateCount = 1
    /\ codeCount = 1
    /\ verifyCount = 1

\* C9: a run sends at most one initiate and one verify request, and a
\* failed initiate call ends the run with the error of that call, with no
\* code read and no verify request sent.
C9_NoRetries ==
    /\ initiateCount <= 1
    /\ verifyCount <= 1
    /\ codeCount <= 1
    /\ (initiateCount >= 1 /\ verifyCount = 0 /\ flowCall.kind = "raised") =>
            /\ pc = "Failed"
            /\ codeCount = 0
            /\ flowResult = Raised(flowCall.error)
            /\ flowCall.req.url = InitiateUrl

C9_Witness ==
    /\ pc = "Failed"
    /\ verifyCount = 0
    /\ flowCall.kind = "raised"
    /\ flowCall.error.type = "HingeRequestError"


\* The run failed with the parse error for the verify response.
ParseErrorRaised ==
    /\ pc = "Failed"
    /\ flowResult.kind = "raised"
    /\ flowResult.error.type = "HingeAPIError"
    /\ flowResult.error.message = "Failed to parse verification response"
    /\ {"status_code", "response_text"}
            \subseteq DOMAIN flowResult.error.details
    /\ flowResult.error.details.status_code = flowCall.outcome.status_code
    /\ flowResult.error.details.response_text = VerifyBody

\* The verify call got a response whose body is no JSON.
VerifyGotNoJson ==
    VerifyEnded /\ GotStatus(flowCall) /\ JsonFails(VerifyBody)

\* C11, as claimed: a verify response whose body cannot be parsed makes the
\* run fail with APIError "Failed to parse verification response" whose
\* details hold the response's status code and raw text.
C11_AsClaimed == VerifyGotNoJson => ParseErrorRaised

\* C11, amended: a verify response whose body cannot be parsed and whose
\* status is not an HTTP error status (400 to 599) makes the run fail with
\* APIError "Failed to parse verification response" whose details hold the
\* response's status code and raw text; with an HTTP error status the run
\* fails with the AuthError or RequestError of the verify call.  In no case
\* does the run end Authenticated.
C11_ParseFailure ==
    VerifyGotNoJson =>
        IF flowCall.outcome.status_code >= 400
           /\ flowCall.outcome.status_code <= 599
        THEN /\ pc = "Failed"
             /\ flowResult.kind = "raised"
             /\ flowResult.error.type
                    = (IF flowCall.outcome.status_code \in {401, 412}
                       THEN "HingeAuthError" ELSE "HingeRequestError")
        ELSE ParseErrorRaised

C11_Witness ==
    /\ VerifyGotNoJson
    /\ flowCall.outcome.status_code = 200
    /\ ParseErrorRaised
    /\ VerifyBody = TextBody("<html>")


-----------------------------------------------------------------------------
(* Properties of the constructor and of the headers of a call, checked     *)
(* under SpecRequest.                                                      *)

\* C12: the header mapping of a client holds "authorization" only if the
\* client has an auth token, with value "Bearer " followed by the token, and
\* holds "x-session-id" only if the client has a session id, with exactly
\* that value; without a session id the key is not there; every identity
\* header key is there in all cases.
C12_HeaderMapping ==
    client # NoClient =>
        LET h == client.default_headers
        IN  /\ ("authorization" \in DOMAIN h) <=> ~Falsy(client.auth_token)
            /\ "authorization" \in DOMAIN h
                    => h["authorization"] = "Bearer " \o client.auth_token
            /\ ("x-session-id" \in DOMAIN h) <=> ~Falsy(client.session_id)
            /\ "x-session-id" \in DOMAIN h
                    => h["x-session-id"] = client.session_id
            /\ client.session_id = None => "x-session-id" \notin DOMAIN h
            /\ IdentityKeys \subseteq DOMAIN h
            /\ DOMAIN h \subseteq
                    IdentityKeys \cup {"authorization", "x-session-id"}

C12_Witness ==
    /\ client # NoClient
    /\ client.auth_token = ""
    /\ client.session_id = "S1"
    /\ "authorization" \notin DOMAIN client.default_headers
    /\ client.default_headers["x-session-id"] = "S1"

\* C13: the headers sent by a call are the caller's headers overwritten by
\* the client's header mapping: every key of the client's mapping is sent
\* with the client's value whatever the caller gave under that key, every
\* other key of the caller is sent with the caller's value; so a client that
\* holds a token and a session id sends "Bearer <token>" and its session id
\* on every call.
C13_IdentityOverwrites ==
    Called =>
        LET sent == lastResult.done.req.headers
            given == lastResult.call.headers
            h == client.default_headers
        IN  /\ DOMAIN sent = DOMAIN given \cup DOMAIN h
            /\ \A k \in DOMAIN h : sent[k] = h[k]
            /\ \A k \in DOMAIN given \ DOMAIN h : sent[k] = given[k]
            /\ ~Falsy(client.auth_token)
                    => sent["authorization"] = "Bearer " \o client.auth_token
            /\ ~Falsy(client.session_id)
                    => sent["x-session-id"] = client.session_id

C13_Witness ==
    /\ Called
    /\ client.auth_token = "T1"
    /\ client.session_id = "S1"
    /\ "authorization" \in DOMAIN lastResult.call.headers
    /\ lastResult.call.headers["authorization"] = "Bearer caller"
    /\ lastResult.call.headers["X-Trace"] = "trace-1"
    /\ lastResult.done.req.headers["authorization"] = "Bearer T1"
    /\ lastResult.done.req.headers["X-Trace"] = "trace-1"

\* C14: a call whose response has a status below 400 raises nothing and
\* returns the response received from the HTTP session, as received.
C14_SuccessReturned ==
    (Called /\ GotStatus(lastResult.done)
            /\ lastResult.done.outcome.status_code < 400)
        => /\ lastResult.done.kind = "returned"
           /\ lastResult.done.response = lastResult.done.outcome

C14_Witness ==
    /\ Called
    /\ GotStatus(lastResult.done)
    /\ lastResult.done.outcome.status_code = 399
    /\ lastResult.done.kind = "returned"


-----------------------------------------------------------------------------
(* Properties of login_with_sms, checked under Spec (continued).           *)

\* No key of the headers is an authorization or a session id header.
Unauthenticated(headers) ==
    \A k \in DOMAIN headers : Lower(k) \notin {"authorization", "x-session-id"}

\* The temporary client of the run holds no session.
TempClientEmpty ==
    temp_client # NoClient =>
        /\ temp_client.auth_token = None
        /\ temp_client.session_id = None
        /\ temp_client.user_id = None
        /\ Unauthenticated(temp_client.default_headers)

\* The requests of the run, in flight and completed, carry no session.
FlowRequestsEmpty ==
    /\ inFlight # NoRequest => Unauthenticated(inFlight.headers)
    /\ "req" \in DOMAIN flowCall => Unauthenticated(flowCall.req.headers)

\* C15: throughout a run of login_with_sms the temporary client has no auth
\* token, no session id and no user id, and the initiate and the verify
\* request are sent without "authorization" and without "x-session-id"; a
\* client with a session comes into being only as the client returned by a
\* successful run, and a failed run raises and yields no client.
C15_PopulatedOnce ==
    /\ [](TempClientEmpty /\ FlowRequestsEmpty)
    /\ [](pc = "Failed" => flowResult.kind = "raised")
    /\ [](pc = "Authenticated" =>
            /\ flowResult.kind = "returned"
            /\ flowResult.client = client
            /\ ~Falsy(client.auth_token)
            /\ ~Falsy(client.session_id)
            /\ client # temp_client)
    /\ [][client' # client => pc' = "Authenticated"]_vars

C15_Witness ==
    /\ pc = "Authenticated"
    /\ client.auth_token = "T1"
    /\ temp_client.auth_token = None
    /\ flowCall.req.url = VerifyUrl
    /\ "authorization" \notin DOMAIN flowCall.req.headers
    /\ "x-session-id" \notin DOMAIN flowCall.req.headers


-----------------------------------------------------------------------------
(* _request with a log sink that may fail.  The logger calls of _request   *)
(* stand unguarded in its body (lines 87-89, 94) and in its except blocks  *)
(* (lines 97, 117), before the error is raised.  What a failing handler    *)
(* does is the sink's business: the stock handlers catch the failure of    *)
(* emit and report it through Handler.handleError, a handler or filter of  *)
(* the application may let its exception out of the logger call.           *)

LogSinks == {"ok", "swallowed", "raises"}

\* The exception a failing handler lets out of the logger call.
HandlerError ==
    [type |-> "OSError", message |-> "log sink failed", details |-> EmptyMap]

\* The records of the call that reach the handlers.
RequestLogs(level, req, o) == SendLogs(level, req) \o CompleteLogs(level, req, o)

\* Lines 87-121 with the sink: the first record that reaches a raising
\* handler ends the call with the handler's exception.
CompleteRequestLogged(level, req, o, sink) ==
    IF sink = "raises" /\ RequestLogs(level, req, o) # <<>>
    THEN [kind |-> "raised", error |-> HandlerError]
    ELSE CompleteRequest(req, o)

\* client._request(...) with the log sink behaving as `sink`.
RequestLogged(method, url, headers, json, data, o, sink) ==
    /\ client # NoClient
    /\ LET req == PrepareRequest(client, method, url, headers, json, data)
           res == CompleteRequestLogged(loggerLevel, req, o, sink)
           after == AfterMerge(headers, client.default_headers)
       IN  /\ lastResult' =
                [call |-> [method |-> method, url |-> url,
                           headers |-> headers, json |-> json,
                           data |-> data, sink |-> sink,
                           headers_after |-> after.caller],
                 done |-> IF res.kind = "raised"
                          THEN [kind |-> "raised", error |-> res.error,
                                req |-> req, outcome |-> o]
                          ELSE [kind |-> "returned",
                                response |-> res.response,
                                req |-> req, outcome |-> o]]
           /\ client' = [client EXCEPT !.default_headers = after.own]
           /\ emitted' = IF sink = "ok"
                         THEN RequestLogs(loggerLevel, req, o)
                         ELSE <<>>
    /\ UNCHANGED <<loggerLevel, flowVars, tools>>

\* The application builds clients and makes calls whose log records go to a
\* sink that may fail.
NextLogging ==
    \/ \E auth_token \in {None, "T1"}, install_id \in InstallIds,
          session_id \in SessionIds \cup {None} :
            Construct(auth_token, install_id, "dev-a", None, session_id)
    \/ \E method \in Methods, url \in Urls, headers \in CallerHeaders,
          json \in JsonArgs, o \in PlainOutcomes, sink \in LogSinks :
            RequestLogged(method, url, headers, json, NoBody, o, sink)

SpecLogging == Init /\ [][NextLogging]_vars

\* C16, as claimed: when the logger call made while handling a failing call
\* (HTTP error status or transport failure) itself fails, the caller gets
\* the AuthError, RequestError or APIError it gets when logging succeeds.
C16_AsClaimed ==
    (Called /\ "sink" \in DOMAIN lastResult.call
            /\ lastResult.call.sink # "ok"
            /\ (GotStatus(lastResult.done)
                    => RaisesForStatus(lastResult.done.outcome.status_code)))
        => /\ lastResult.done.kind = "raised"
           /\ lastResult.done.error
                = CompleteRequest(lastResult.done.req,
                                  lastResult.done.outcome).error


-----------------------------------------------------------------------------
(* Properties of login_with_sms, checked under Spec (continued).           *)

\* C17, as claimed: a run of login_with_sms that has ended either returned
\* an authenticated client or raised one of APIError, AuthError and
\* RequestError, whatever the outcomes of the two calls and whatever JSON
\* value the verify body parses to.
C17_AsClaimed ==
    pc \in {"Authenticated", "Failed"} =>
        \/ /\ pc = "Authenticated"
           /\ flowResult.kind = "returned"
        \/ /\ pc = "Failed"
           /\ flowResult.kind = "raised"
           /\ flowResult.error.type \in ErrorTypes


\* The request carries the JSON content type and the identity of the run.
CarriesIdentity(req) ==
    /\ {"content-type", "x-device-id", "x-install-id"} \subseteq DOMAIN req.headers
    /\ req.headers["content-type"] = "application/json; charset=UTF-8"
    /\ req.headers["x-device-id"] = args.device_id
    /\ req.headers["x-install-id"] = args.install_id

\* C18: within a run of login_with_sms the verify body's phoneNumber and
\* deviceId are those of the initiate body, its installId is the run's
\* install_id argument and its otp is the code acquired in this run; both
\* requests carry the JSON content-type header and the x-device-id and
\* x-install-id of the run, and so does the client the run returns.
C18_VerifyMatchesInitiate ==
    /\ (inFlight # NoRequest /\ verifyCount = 0) =>
            /\ inFlight.url = InitiateUrl
            /\ inFlight.json = initiateBody
            /\ initiateBody.v.phoneNumber = args.phone_number
            /\ initiateBody.v.deviceId = args.device_id
            /\ CarriesIdentity(inFlight)
    /\ verifyCount >= 1 =>
            /\ inFlight.url = VerifyUrl
            /\ DOMAIN inFlight.json.v
                    = {"deviceId", "installId", "phoneNumber", "otp"}
            /\ inFlight.json.v.phoneNumber = initiateBody.v.phoneNumber
            /\ inFlight.json.v.deviceId = initiateBody.v.deviceId
            /\ inFlight.json.v.installId = args.install_id
            /\ inFlight.json.v.otp = sms_code
            /\ sms_code \in Codes
            /\ CarriesIdentity(inFlight)
    /\ VerifyEnded => flowCall.req = inFlight
    /\ pc = "Authenticated" =>
            /\ client.default_headers["x-device-id"] = args.device_id
            /\ client.default_headers["x-install-id"] = args.install_id

C18_Witness ==
    /\ pc = "Authenticated"
    /\ args.device_id = "dev-b"
    /\ args.install_id = "inst-a"
    /\ flowCall.req.json.v.installId = "inst-a"
    /\ sms_code = "654321"
    /\ flowCall.req.json.v.otp = "654321"
    /\ flowCall.req.json.v.deviceId = "dev-b"
    /\ client.default_headers["x-device-id"] = "dev-b"


-----------------------------------------------------------------------------
(* The frame of _request, checked under SpecRequest.                       *)

\* C19: a call of _request, returning or raising, leaves the client's
\* auth_token, session_id, user_id and default_headers as they were, and
\* leaves the header mapping the caller passed as it was passed.
C19_RequestFrame ==
    [][Called' =>
            /\ client'.auth_token = client.auth_token
            /\ client'.session_id = client.session_id
            /\ client'.user_id = client.user_id
            /\ client'.default_headers = client.default_headers
            /\ lastResult'.call.headers_after = lastResult'.call.headers]_vars

C19_Witness ==
    /\ Called
    /\ lastResult.done.kind = "raised"
    /\ "authorization" \in DOMAIN lastResult.call.headers
    /\ lastResult.call.headers_after = lastResult.call.headers
    /\ lastResult.done.req.headers # lastResult.call.headers
    /\ client.auth_token = "T1"
    /\ client.default_headers["authorization"] = "Bearer T1"


-----------------------------------------------------------------------------
(* HingeTools.download_recommendation_content, step by step: the run stops *)
(* at each call of a collaborator and goes on with what the call gives.    *)

\* The position of the run once the loops have moved to `next`.
AfterFetch(t, next) ==
    IF next.done
    THEN [t EXCEPT !.pc = "Returned", !.at = NoFetch,
                   !.result = [kind |-> "returned",
                               value |-> Content(t.recommendations,
                                                 t.profiles)]]
    ELSE [t EXCEPT !.pc = "Downloading", !.at = next]

\* Lines 41-50: the run starts and calls get_recommendations.
StartDownload(active_today, new_here) ==
    /\ tools.pc \in {"Idle", "Returned", "Raised"}
    /\ tools' = [ToolsIdle EXCEPT
                    !.pc = "Recommending",
                    !.calls = <<[name |-> "get_recommendations",
                                 active_today |-> active_today,
                                 new_here |-> new_here]>>]
    /\ UNCHANGED <<client, lastResult, loggerLevel, emitted, flowVars>>

\* Lines 46-50, 76-81: get_recommendations raises e, which is raised on.
RecommendationsFail(e) ==
    /\ tools.pc = "Recommending"
    /\ tools' = [tools EXCEPT !.pc = "Raised", !.raisedBy = e,
                              !.result = [kind |-> "raised", error |-> e]]
    /\ UNCHANGED <<client, lastResult, loggerLevel, emitted, flowVars>>

\* Lines 46-64: get_recommendations returns; without user ids the run
\* returns, with some it calls get_public_users.
RecommendationsReturn(recommendations) ==
    /\ tools.pc = "Recommending"
    /\ LET user_ids == UserIdsOf(recommendations)
       IN  tools' =
             IF user_ids = <<>>
             THEN [tools EXCEPT
                     !.pc = "Returned",
                     !.recommendations = recommendations,
                     !.result = [kind |-> "returned",
                                 value |-> Content(recommendations, <<>>)]]
             ELSE [tools EXCEPT
                     !.pc = "Profiling",
                     !.recommendations = recommendations,
                     !.user_ids = user_ids,
                     !.calls = Append(@, [name |-> "get_public_users",
                                          user_ids |-> user_ids])]
    /\ UNCHANGED <<client, lastResult, loggerLevel, emitted, flowVars>>

\* Lines 64, 76-81: get_public_users raises e, which is raised on.
PublicUsersFail(e) ==
    /\ tools.pc = "Profiling"
    /\ tools' = [tools EXCEPT !.pc = "Raised", !.raisedBy = e,
                              !.result = [kind |-> "raised", error |-> e]]
    /\ UNCHANGED <<client, lastResult, loggerLevel, emitted, flowVars>>

\* Lines 64-74, 92-106: get_public_users returns the profiles, and the loops
\* run to the first photo to fetch, or to the end.
PublicUsersReturn(profiles) ==
    /\ tools.pc = "Profiling"
    /\ profiles \in ProfileLists(tools.user_ids)
    /\ tools' = AfterFetch([tools EXCEPT !.profiles = profiles],
                           NextFetch(profiles, 1, 0))
    /\ UNCHANGED <<client, lastResult, loggerLevel, emitted, flowVars>>

\* Lines 108-123: the photo at hand is fetched and saved, or one of the two
\* fails and the failure is logged; the loops go on to the next photo.
FetchPhoto(o) ==
    /\ tools.pc = "Downloading"
    /\ LET profile == tools.profiles[tools.at.p]
           photo == PhotosOf(profile)[tools.at.idx + 1]
           entry == [p |-> tools.at.p, user_id |-> profile.identityId,
                     idx |-> tools.at.idx, path |-> ImagePath(photo),
                     file |-> PhotoFile(tools.at.idx, photo), outcome |-> o]
           t == [tools EXCEPT
                    !.fetched = Append(@, entry),
                    !.saved = IF o = "saved"
                              THEN @ \cup {[user_id |-> entry.user_id,
                                            file |-> entry.file]}
                              ELSE @]
       IN  tools' = AfterFetch(t, NextFetch(tools.profiles, tools.at.p,
                                            tools.at.idx + 1))
    /\ UNCHANGED <<client, lastResult, loggerLevel, emitted, flowVars>>

\* The application runs download_recommendation_content, again and again.
NextTools ==
    \/ StartDownload(TRUE, FALSE)
    \/ \E e \in ApiErrors : RecommendationsFail(e)
    \/ \E recommendations \in Recommendations :
            RecommendationsReturn(recommendations)
    \/ \E e \in ApiErrors : PublicUsersFail(e)
    \/ \E profiles \in AllProfileLists : PublicUsersReturn(profiles)
    \/ \E o \in PhotoOutcomes : FetchPhoto(o)

SpecTools == Init /\ [][NextTools]_vars


-----------------------------------------------------------------------------
(* Properties of HingeTools, checked under SpecTools.                      *)

\* The photos that have a cdnId, as <<profile, index>> pairs.
ToFetch(profiles) ==
    {pos \in (1..Len(profiles)) \X (0..(MaxPhotos + 1)) :
        /\ pos[2] < Len(PhotosOf(profiles[pos[1]]))
        /\ ~Falsy(CdnId(PhotosOf(profiles[pos[1]])[pos[2] + 1]))}

\* List order: profile by profile, and by index within a profile.
Before(a, b) == a[1] < b[1] \/ (a[1] = b[1] /\ a[2] < b[2])

Position(entry) == <<entry.p, entry.idx>>

\* The recommendations hold no subject.
NoSubjects(recommendations) ==
    \A k \in 1..Len(GetOr(recommendations, "feeds", <<>>)) :
        GetOr(GetOr(recommendations, "feeds", <<>>)[k], "subjects", <<>>) = <<>>

CalledApi(name) == \E k \in 1..Len(tools.calls) : tools.calls[k].name = name

\* C20: in HingeTools a photo that cannot be fetched or saved, or that has
\* no cdnId, raises nothing and keeps no later photo from being fetched:
\* the photos with a cdnId are fetched in list order, each once, and each
\* one saved is saved under its own list index; an error of
\* get_recommendations or get_public_users is raised on as it is, with no
\* photo fetched; and recommendations without subjects lead to no call of
\* get_public_users and to a result with an empty profiles list.
C20_FailureIsolation ==
    LET fetched == tools.fetched
        done == {Position(fetched[k]) : k \in 1..Len(fetched)}
        plan == ToFetch(tools.profiles)
    IN  /\ \A j, k \in 1..Len(fetched) :
                j < k => Before(Position(fetched[j]), Position(fetched[k]))
        /\ done \subseteq plan
        /\ tools.pc = "Downloading" =>
                /\ <<tools.at.p, tools.at.idx>> \in plan
                /\ done = {pos \in plan :
                            Before(pos, <<tools.at.p, tools.at.idx>>)}
        /\ (tools.pc = "Returned" /\ CalledApi("get_public_users")) =>
                /\ done = plan
                /\ tools.result.value
                        = Content(tools.recommendations, tools.profiles)
        /\ \A k \in 1..Len(fetched) :
                /\ fetched[k].user_id
                        = tools.profiles[fetched[k].p].identityId
                /\ fetched[k].file \in
                        {"photo_" \o ToString(fetched[k].idx) \o e :
                            e \in {".png", ".gif", ".jpg"}}
        /\ tools.saved
                = {[user_id |-> fetched[k].user_id, file |-> fetched[k].file] :
                        k \in {j \in 1..Len(fetched) :
                                    fetched[j].outcome = "saved"}}
        /\ tools.pc = "Raised" =>
                /\ tools.result = [kind |-> "raised", error |-> tools.raisedBy]
                /\ tools.raisedBy \in ApiErrors
                /\ fetched = <<>>
                /\ tools.saved = {}
        /\ (tools.pc \in {"Profiling", "Downloading", "Returned"}
                /\ NoSubjects(tools.recommendations)) =>
                /\ tools.pc = "Returned"
                /\ ~CalledApi("get_public_users")
                /\ tools.result.value.profiles = <<>>
                /\ tools.result.value.recommendations = tools.recommendations

C20_Witness ==
    /\ tools.pc = "Returned"
    /\ Len(tools.fetched) = 2
    /\ tools.fetched[1].user_id = "u1"
    /\ tools.fetched[1].outcome = "fetch_fails"
    /\ tools.fetched[2].user_id = "u2"
    /\ tools.fetched[2].idx = 1
    /\ tools.fetched[2].outcome = "saved"
    /\ Len(PhotosOf(tools.profiles[2])) = 2
    /\ tools.saved = {[user_id |-> "u2", file |-> "photo_1.png"]}

====
